---- MODULE Spec2Model ----
(***************************************************************************)
(* Model of the VRDF conversion service (controllers/vrdf_controller.py):  *)
(* the naming functions, the label-channel decomposition and the           *)
(* segmentation + conversion pipeline over a study directory.              *)
(*                                                                         *)
(* File names are sequences of one-character strings.  Voxel values are    *)
(* integers counting halves (2 stands for 1.0, 3 for 1.5), so that the     *)
(* float32 -> int32 cast of the labelmap is a real truncation.             *)
(***************************************************************************)
EXTENDS Integers, Sequences, FiniteSets, TLC

VARIABLES dirs, fs, fs0, pc, req, loc, result, log, resp, nm, dc

vars == <<dirs, fs, fs0, pc, req, loc, result, log, resp, nm, dc>>

(***************************************************************************)
(* Bounds of the model.                                                    *)
(***************************************************************************)
\* number of pieces a base string is concatenated from
MaxPieces == 2
\* number of voxels of a stored array
MaxVoxels == 2

(***************************************************************************)
(* Strings.                                                                *)
(***************************************************************************)
NL == "\n"

Dash == <<"-">>

NiiGz == <<".", "n", "i", "i", ".", "g", "z">>

VrdfExt == <<".", "v", "r", "d", "f">>

SegmentedInfix == <<"-", "s", "e", "g", "m", "e", "n", "t", "e", "d", "-">>

LwSuffix == <<"_", "l", "w">>

T1N == <<"t", "1", "n">>

T1C == <<"t", "1", "c">>

T2W == <<"t", "2", "w">>

T2F == <<"t", "2", "f">>

\* the alternation (t1n|t1c|t2w|t2f) of the pattern
Modalities == {T1N, T1C, T2W, T2F}

EndsWith(s, suf) ==
    /\ Len(s) >= Len(suf)
    /\ SubSeq(s, Len(s) - Len(suf) + 1, Len(s)) = suf

\* the literal '-{modality}.nii.gz'
ModalitySuffix(m) == Dash \o m \o NiiGz

\* '$' of Python's re: the end of the string, or just before one final newline
DollarAnchored(s, suf) ==
    \/ EndsWith(s, suf)
    \/ EndsWith(s, suf \o <<NL>>)

\* re.search(r'-(t1n|t1c|t2w|t2f)\.nii\.gz$', filename) finds a match
ModalityMatches(filename) ==
    \E m \in Modalities : DollarAnchored(filename, ModalitySuffix(m))

\* a variant that falls back to t1n when the pattern does not match
extract_modality_with_default(filename) ==
    IF ModalityMatches(filename)
    THEN [ok |-> TRUE,
          modality |-> CHOOSE m \in Modalities :
                           DollarAnchored(filename, ModalitySuffix(m))]
    ELSE [ok |-> TRUE, modality |-> T1N]

\* extract_modality_from_filename: match.group(1), or the ValueError it raises
extract_modality_from_filename(filename) ==
    IF ModalityMatches(filename)
    THEN [ok |-> TRUE,
          modality |-> CHOOSE m \in Modalities :
                           DollarAnchored(filename, ModalitySuffix(m))]
    ELSE [ok |-> FALSE, error |-> "ValueError"]

\* str.replace(old, ''): every non-overlapping occurrence, left to right
RECURSIVE RemoveAll(_, _)
RemoveAll(s, old) ==
    IF Len(s) < Len(old) THEN s
    ELSE IF SubSeq(s, 1, Len(old)) = old
         THEN RemoveAll(SubSeq(s, Len(old) + 1, Len(s)), old)
         ELSE <<Head(s)>> \o RemoveAll(Tail(s), old)

\* base_name = filename.replace(f'-{modality}.nii.gz', '')
BaseName(filename, modality) == RemoveAll(filename, ModalitySuffix(modality))

\* segmented_filename = f"{base_name}-segmented-{modality}.nii.gz"
SegmentedFilename(filename, modality) ==
    BaseName(filename, modality) \o SegmentedInfix \o modality \o NiiGz

\* vrdf_filename = f"{base_name}-{modality}.vrdf"
VrdfFilename(filename, modality) ==
    BaseName(filename, modality) \o Dash \o modality \o VrdfExt

\* actual_vrdf_filename = f"{base_name}-{modality}_lw.vrdf"
ActualVrdfFilename(filename, modality) ==
    BaseName(filename, modality) \o Dash \o modality \o LwSuffix \o VrdfExt

(***************************************************************************)
(* Arrays: a shape and a value for every index tuple (0-based).            *)
(***************************************************************************)
\* LABELS = [0, 1, 2, 3]
LABELS == <<0, 1, 2, 3>>

\* numbers of dimensions of a stored field
Ndims == {2, 3, 4, 5}

RECURSIVE Prod(_)
Prod(s) == IF s = <<>> THEN 1 ELSE Head(s) * Prod(Tail(s))

RECURSIVE MaxOf(_)
MaxOf(s) ==
    IF s = <<>> THEN 1
    ELSE IF Head(s) > MaxOf(Tail(s)) THEN Head(s) ELSE MaxOf(Tail(s))

Front(s) == SubSeq(s, 1, Len(s) - 1)

Shapes ==
    UNION {{s \in [1..n -> 1..MaxVoxels] : Prod(s) <= MaxVoxels} : n \in Ndims}

Idx(shape) ==
    {i \in [1..Len(shape) -> 0..(MaxOf(shape) - 1)] :
        \A d \in 1..Len(shape) : i[d] < shape[d]}

Arrays(vals) ==
    UNION {{[shape |-> s, data |-> d] : d \in [Idx(s) -> vals]} : s \in Shapes}

Abs(x) == IF x < 0 THEN -x ELSE x

\* 2^24 in halves: up to here every half is a float32
F32Exact == 2 * 16777216

\* astype(np.float32), round to nearest even; halves up to 2^25 (values to 2^24)
\* are exact, above that the float32 grid is 2.0 wide (4 halves)
AsFloat32(h) ==
    IF Abs(h) <= F32Exact THEN h
    ELSE LET a == Abs(h)
             lo == (a \div 4) * 4
             r == a - lo
             up == IF r > 2 \/ (r = 2 /\ (lo \div 4) % 2 = 1) THEN lo + 4 ELSE lo
         IN IF h < 0 THEN -up ELSE up

\* astype(np.int32) of a float: truncation toward zero
AsInt32(h) == IF h >= 0 THEN h \div 2 ELSE -((-h) \div 2)

\* data[..., 0]
Slice0(a) ==
    [shape |-> Front(a.shape),
     data |-> [i \in Idx(Front(a.shape)) |-> a.data[Append(i, 0)]]]

\* load_3d: drop the last axis of a field of more than 3 dimensions, cast to float32
load_3d(a) ==
    LET d == IF Len(a.shape) > 3 THEN Slice0(a) ELSE a
    IN [shape |-> d.shape, data |-> [i \in Idx(d.shape) |-> AsFloat32(d.data[i])]]

\* seg.astype(np.int32)
CastLabelmap(a) ==
    [shape |-> a.shape, data |-> [i \in Idx(a.shape) |-> AsInt32(a.data[i])]]

\* masks = [(seg == lab) for lab in LABELS], one mask
Mask(seg, lab) == [i \in Idx(seg.shape) |-> seg.data[i] = lab]

\* np.any(mask)
AnyTrue(mask) == \E i \in DOMAIN mask : mask[i]

\* a boolean index must agree with the leading axes of the indexed array
MaskFits(maskShape, arrShape) ==
    /\ Len(maskShape) <= Len(arrShape)
    /\ \A d \in 1..Len(maskShape) : maskShape[d] = arrShape[d]

\* a variant that copies the whole volume into the channel of a label that occurs
ChannelAtUnmasked(vol, seg, sIdx, i) ==
    LET mask == Mask(seg, LABELS[sIdx + 1])
    IN IF AnyTrue(mask) THEN vol.data[i] ELSE 0

\* out[..., s_idx][mask] = vol[mask], read at one voxel i of channel s_idx
ChannelAt(vol, seg, sIdx, i) ==
    LET mask == Mask(seg, LABELS[sIdx + 1])
    IN IF AnyTrue(mask) /\ mask[SubSeq(i, 1, Len(seg.shape))]
       THEN vol.data[i]
       ELSE 0

\* a variant that raises when a label of LABELS is carried by no voxel
DecomposeRequiringLabels(vol, seg) ==
    IF Len(vol.shape) # 3
    THEN [ok |-> FALSE, error |-> "ValueError"]
    ELSE IF \E s \in 1..Len(LABELS) : ~AnyTrue(Mask(seg, LABELS[s]))
    THEN [ok |-> FALSE, error |-> "ValueError"]
    ELSE IF ~MaskFits(seg.shape, vol.shape)
    THEN [ok |-> FALSE, error |-> "IndexError"]
    ELSE LET oshape == vol.shape \o <<Len(LABELS)>>
         IN [ok |-> TRUE,
             out |-> [shape |-> oshape,
                      data |-> [j \in Idx(oshape) |->
                                   ChannelAt(vol, seg, j[4], SubSeq(j, 1, 3))]]]

\* lines 69-79: H, W, Z = vol.shape; the masks; the zero output; the masked copies
Decompose(vol, seg) ==
    IF Len(vol.shape) # 3
    THEN [ok |-> FALSE, error |-> "ValueError"]
    ELSE IF \E s \in 1..Len(LABELS) :
               AnyTrue(Mask(seg, LABELS[s])) /\ ~MaskFits(seg.shape, vol.shape)
    THEN [ok |-> FALSE, error |-> "IndexError"]
    ELSE LET oshape == vol.shape \o <<Len(LABELS)>>
         IN [ok |-> TRUE,
             out |-> [shape |-> oshape,
                      data |-> [j \in Idx(oshape) |->
                                   ChannelAt(vol, seg, j[4], SubSeq(j, 1, 3))]]]

(***************************************************************************)
(* The study storage and the invocations of the pipeline.                  *)
(*   dirs    the study directories that exist under storage/studies        *)
(*   fs      the files that exist: path -> content; a path is              *)
(*           <<study_code, file name>>                                     *)
(*   fs0     the files that existed when the invocations began             *)
(*   pc      where each invocation stands                                  *)
(*   req     the arguments of each invocation                              *)
(*   loc     its local variables                                           *)
(*   result  what it returned or raised                                    *)
(*   log     the file operations and encoder calls it has made, in order   *)
(*   resp    the HTTP response of the /convert request that made it        *)
(***************************************************************************)
Procs == {1, 2}

NoArray == [shape |-> <<>>, data |-> <<>>]

NoLoc ==
    [modality |-> <<>>, seg |-> NoArray, vol |-> NoArray,
     segmented_file |-> <<>>, vrdf_file |-> <<>>, vol_full |-> NoArray,
     user_tf |-> "None"]

NoReq == [study_code |-> "", filename |-> <<>>, seg_filename |-> <<>>,
          config |-> [isNone |-> TRUE, dict |-> <<>>]]

Running == [status |-> "running", error |-> "", stage |-> "", vrdf_file |-> <<>>]

Put(f, k, v) == [x \in DOMAIN f \cup {k} |-> IF x = k THEN v ELSE f[x]]

Del(f, k) == [x \in DOMAIN f \ {k} |-> f[x]]

\* Path.exists()
Exists(path) == path \in DOMAIN fs

\* a file nibabel can read as an image
IsVolume(c) == "shape" \in DOMAIN c

\* study_dir / name
InDir(study, name) == <<study, name>>

\* the bare 'raise' of the except blocks: the caught exception goes on unchanged
Reraise(e) == e

\* an exception leaves perform_segmentation_and_conversion_from_filename
Fail(p, e, stage) ==
    /\ pc' = [pc EXCEPT ![p] = "failed"]
    /\ result' = [result EXCEPT ![p] =
                     [status |-> "failed", error |-> Reraise(e), stage |-> stage,
                      vrdf_file |-> <<>>]]

\* lines 169-172: return str(segmented_file), actual_vrdf_filename
Complete(p) ==
    /\ pc' = [pc EXCEPT ![p] = "done"]
    /\ result' = [result EXCEPT ![p] =
                     [status |-> "ok", error |-> "", stage |-> "completed",
                      vrdf_file |-> ActualVrdfFilename(req[p].filename,
                                                       loc[p].modality)]]

Logged(p, op, path) == log' = [log EXCEPT ![p] = Append(@, [op |-> op, path |-> path])]

NoResponse == [status_code |-> 0, vrdf_file |-> <<>>]

\* main.py lines 66-72: the except clauses, in their order
StatusFor(error) ==
    IF error = "FileNotFoundError" THEN 404
    ELSE IF error = "ValueError" THEN 400
    ELSE 500

\* main.py lines 49-72: the /convert handler answers once the pipeline has
\* returned or raised
Respond(p) ==
    /\ pc[p] \in {"done", "failed"}
    /\ resp[p] = NoResponse
    /\ resp' = [resp EXCEPT ![p] =
                   IF result[p].status = "ok"
                   THEN [status_code |-> 200, vrdf_file |-> result[p].vrdf_file]
                   ELSE [status_code |-> StatusFor(result[p].error),
                         vrdf_file |-> <<>>]]
    /\ UNCHANGED <<dirs, fs, fs0, pc, req, loc, result, log, nm, dc>>

\* a variant that starts the invocation again after a first encoder failure
ValidateStudyDirRetrying(p) ==
    /\ \/ pc[p] = "validate_dir"
       \/ pc[p] = "failed" /\ result[p].stage = "encode" /\ Len(log[p]) = 1
    /\ IF req[p].study_code \notin dirs
       THEN Fail(p, "FileNotFoundError", "validate")
       ELSE /\ pc' = [pc EXCEPT ![p] = "extract"]
            /\ result' = [result EXCEPT ![p] = Running]
    /\ UNCHANGED <<dirs, fs0, resp, fs, req, loc, log, nm, dc>>

\* lines 143-147: the study directory must exist
ValidateStudyDir(p) ==
    /\ pc[p] = "validate_dir"
    /\ IF req[p].study_code \notin dirs
       THEN Fail(p, "FileNotFoundError", "validate")
       ELSE /\ pc' = [pc EXCEPT ![p] = "extract"]
            /\ UNCHANGED result
    /\ UNCHANGED <<dirs, fs0, resp, fs, req, loc, log, nm, dc>>

\* lines 42-47: the modality of the filename
ExtractModality(p) ==
    /\ pc[p] = "extract"
    /\ LET r == extract_modality_from_filename(req[p].filename)
       IN IF ~r.ok
          THEN Fail(p, r.error, "decompose") /\ UNCHANGED loc
          ELSE /\ pc' = [pc EXCEPT ![p] = "validate_files"]
               /\ loc' = [loc EXCEPT ![p].modality = r.modality]
               /\ UNCHANGED result
    /\ UNCHANGED <<dirs, fs0, resp, fs, req, log, nm, dc>>

\* a variant that reports a missing file as a ValueError
ValidateFilesValueError(p) ==
    /\ pc[p] = "validate_files"
    /\ IF ~Exists(InDir(req[p].study_code, req[p].filename))
          \/ ~Exists(InDir(req[p].study_code, req[p].seg_filename))
       THEN Fail(p, "ValueError", "validate")
       ELSE /\ pc' = [pc EXCEPT ![p] = "load"]
            /\ UNCHANGED result
    /\ UNCHANGED <<dirs, fs0, resp, fs, req, loc, log, nm, dc>>

\* lines 50-57: the input file and the segmentation file must exist
ValidateFiles(p) ==
    /\ pc[p] = "validate_files"
    /\ IF ~Exists(InDir(req[p].study_code, req[p].filename))
          \/ ~Exists(InDir(req[p].study_code, req[p].seg_filename))
       THEN Fail(p, "FileNotFoundError", "validate")
       ELSE /\ pc' = [pc EXCEPT ![p] = "load"]
            /\ UNCHANGED result
    /\ UNCHANGED <<dirs, fs0, resp, fs, req, loc, log, nm, dc>>

\* lines 62-67: load the segmentation (cast to int32) and the input volume
LoadVolumes(p) ==
    /\ pc[p] = "load"
    /\ LET segPath == InDir(req[p].study_code, req[p].seg_filename)
           inPath == InDir(req[p].study_code, req[p].filename)
       IN IF ~Exists(segPath) \/ ~Exists(inPath)
          THEN Fail(p, "FileNotFoundError", "decompose") /\ UNCHANGED loc
          ELSE IF ~IsVolume(fs[segPath]) \/ ~IsVolume(fs[inPath])
          THEN Fail(p, "ImageFileError", "decompose") /\ UNCHANGED loc
          ELSE /\ pc' = [pc EXCEPT ![p] = "save"]
               /\ loc' = [loc EXCEPT ![p].seg = CastLabelmap(load_3d(fs[segPath])),
                                      ![p].vol = load_3d(fs[inPath])]
               /\ UNCHANGED result
    /\ UNCHANGED <<dirs, fs0, resp, fs, req, log, nm, dc>>

\* lines 69-92: decompose, derive the intermediate name, save the intermediate file
DecomposeAndSave(p) ==
    /\ pc[p] = "save"
    /\ LET r == Decompose(loc[p].vol, loc[p].seg)
           out_path == InDir(req[p].study_code,
                             SegmentedFilename(req[p].filename, loc[p].modality))
       IN IF ~r.ok
          THEN Fail(p, r.error, "decompose") /\ UNCHANGED <<fs, loc, log>>
          ELSE /\ fs' = Put(fs, out_path, r.out)
               /\ Logged(p, "write", out_path)
               /\ loc' = [loc EXCEPT ![p].segmented_file = out_path]
               /\ pc' = [pc EXCEPT ![p] = "conv_load"]
               /\ UNCHANGED result
    /\ UNCHANGED <<dirs, fs0, resp, req, nm, dc>>

\* a variant that never hands a transfer function to the encoder
UserTfDropped(cfg) == "None"

\* if user_cfg is not None and "transfer_function" in user_cfg
UserTf(cfg) ==
    IF ~cfg.isNone /\ "transfer_function" \in DOMAIN cfg.dict
    THEN cfg.dict["transfer_function"]
    ELSE "None"

\* a variant that deletes the intermediate file as soon as it has been loaded
ConversionLoadEarlyCleanup(p) ==
    /\ pc[p] = "conv_load"
    /\ LET vrdf_file == InDir(req[p].study_code,
                              VrdfFilename(req[p].filename, loc[p].modality))
       IN IF ~Exists(loc[p].segmented_file)
          THEN Fail(p, "FileNotFoundError", "encode") /\ UNCHANGED <<loc, fs, log>>
          ELSE /\ loc' = [loc EXCEPT ![p].vrdf_file = vrdf_file,
                                      ![p].vol_full = fs[loc[p].segmented_file],
                                      ![p].user_tf = UserTf(req[p].config)]
               /\ fs' = Del(fs, loc[p].segmented_file)
               /\ Logged(p, "delete", loc[p].segmented_file)
               /\ pc' = [pc EXCEPT ![p] = "export"]
               /\ UNCHANGED result
    /\ UNCHANGED <<dirs, fs0, resp, req, nm, dc>>

\* lines 154-158 and 103-118: the requested output name, then perform_conversion
\* loads the configuration and the intermediate file
ConversionLoad(p) ==
    /\ pc[p] = "conv_load"
    /\ LET vrdf_file == InDir(req[p].study_code,
                              VrdfFilename(req[p].filename, loc[p].modality))
       IN IF ~Exists(loc[p].segmented_file)
          THEN Fail(p, "FileNotFoundError", "encode") /\ UNCHANGED loc
          ELSE IF ~IsVolume(fs[loc[p].segmented_file])
          THEN Fail(p, "ImageFileError", "encode") /\ UNCHANGED loc
          ELSE /\ loc' = [loc EXCEPT ![p].vrdf_file = vrdf_file,
                                      ![p].vol_full = fs[loc[p].segmented_file],
                                      ![p].user_tf = UserTf(req[p].config)]
               /\ pc' = [pc EXCEPT ![p] = "export"]
               /\ UNCHANGED result
    /\ UNCHANGED <<dirs, fs0, resp, fs, req, log, nm, dc>>

\* the name the encoder writes for a requested '<stem>.vrdf' under a suffix convention
EncoderOutput(vrdf_out, suffix) ==
    <<vrdf_out[1],
      SubSeq(vrdf_out[2], 1, Len(vrdf_out[2]) - Len(VrdfExt)) \o suffix \o VrdfExt>>

\* the suffixes an encoder may put before the extension
EncoderSuffixes == {<<>>, LwSuffix, <<"_", "w">>}

\* a variant that removes the intermediate file when the encoder raises
EncodeRaisesAndCleans(p) ==
    /\ Fail(p, "EncoderFailure", "encode")
    /\ fs' = Del(fs, loc[p].segmented_file)
    /\ Logged(p, "delete", loc[p].segmented_file)

\* export_labelmap_weighted_case raises
EncodeRaises(p) ==
    /\ Fail(p, "EncoderFailure", "encode")
    /\ UNCHANGED <<fs, log>>

\* export_labelmap_weighted_case writes the output file
EncodeWrites(p, suffix) ==
    LET written == EncoderOutput(loc[p].vrdf_file, suffix)
    IN /\ fs' = Put(fs, written,
                    [vrdf |-> TRUE, vol |-> loc[p].vol_full, tf |-> loc[p].user_tf])
       /\ Logged(p, "encode", written)
       /\ pc' = [pc EXCEPT ![p] = "cleanup"]
       /\ UNCHANGED result

\* lines 120-135: the encoder call of perform_conversion
ConversionExport(p) ==
    /\ pc[p] = "export"
    /\ \/ EncodeRaises(p)
       \/ \E suffix \in EncoderSuffixes : EncodeWrites(p, suffix)
    /\ UNCHANGED <<dirs, fs0, resp, req, loc, nm, dc>>

\* lines 164-165 (and 169-172 when there is nothing to delete)
CleanupExists(p) ==
    /\ pc[p] = "cleanup"
    /\ IF Exists(loc[p].segmented_file)
       THEN /\ pc' = [pc EXCEPT ![p] = "unlink"]
            /\ UNCHANGED <<result, log>>
       ELSE Complete(p) /\ Logged(p, "report", <<>>)
    /\ UNCHANGED <<dirs, fs0, resp, fs, req, loc, nm, dc>>

\* a variant that returns without removing the file
UnlinkSkipped(p, outcome) ==
    /\ Complete(p)
    /\ Logged(p, "report", <<>>)
    /\ UNCHANGED fs

\* segmented_path.unlink(): removes the file, or raises
Unlink(p, outcome) ==
    IF ~Exists(loc[p].segmented_file)
    THEN Fail(p, "FileNotFoundError", "cleanup") /\ UNCHANGED <<fs, log>>
    ELSE IF outcome = "raise"
    THEN Fail(p, "PermissionError", "cleanup") /\ UNCHANGED <<fs, log>>
    ELSE /\ fs' = Del(fs, loc[p].segmented_file)
         /\ Complete(p)
         /\ log' = [log EXCEPT ![p] =
                       @ \o <<[op |-> "delete", path |-> loc[p].segmented_file],
                              [op |-> "report", path |-> <<>>]>>]

\* lines 166-176: delete the intermediate file, then return
CleanupUnlink(p) ==
    /\ pc[p] = "unlink"
    /\ \E outcome \in {"ok", "raise"} : Unlink(p, outcome)
    /\ UNCHANGED <<dirs, fs0, resp, req, loc, nm, dc>>

(***************************************************************************)
(* The requests and the initial storage.                                   *)
(***************************************************************************)
BaseA == <<"a">>

SegSuffix == <<"-", "s", "e", "g">> \o NiiGz

\* input file names of the requests
Filenames ==
    {BaseA \o ModalitySuffix(T1N),
     BaseA \o ModalitySuffix(T2W),
     BaseA \o ModalitySuffix(T1N) \o ModalitySuffix(T1N),
     BaseA \o ModalitySuffix(T1N) \o <<NL>>,
     BaseA \o Dash \o <<"t", "3", "z">> \o NiiGz}

\* segmentation file names of the requests
SegFilenames == {BaseA \o SegSuffix, BaseA \o SegmentedInfix \o T1N \o NiiGz}

StudyCodes == {"s1", "s2"}

\* what load_user_config returns: None, a dict without the field, a dict with it
Configs ==
    {[isNone |-> TRUE, dict |-> <<>>],
     [isNone |-> FALSE, dict |-> [mode |-> "default"]],
     [isNone |-> FALSE, dict |-> [transfer_function |-> "tf1"]]}

Requests ==
    [study_code : StudyCodes, filename : Filenames, seg_filename : SegFilenames,
     config : Configs]

\* stored input volumes: a 3D one and a 2D one, intensity 1.5 everywhere
VolSamples == {a \in Arrays({3}) : a.shape \in {<<1, 1, 2>>, <<1, 2>>}}

\* stored labelmaps over the labels 1.0 and 4.0, of the volume's shape and of another
SegSamples == {a \in Arrays({2, 8}) : a.shape \in {<<1, 1, 2>>, <<1, 2, 1>>}}

\* the storage before a request r: its input and segmentation files, or not
StoragesFor(r) ==
    LET inPath == InDir("s1", r.filename)
        segPath == InDir("s1", r.seg_filename)
    IN {[x \in {} |-> NoArray]}
       \cup {Put(<<>>, inPath, v) : v \in VolSamples}
       \cup {Put(<<>>, segPath, s) : s \in SegSamples}
       \cup {Put(Put(<<>>, inPath, v), segPath, s) : v \in VolSamples, s \in SegSamples}

IdleNames == [stage |-> "idle"]

IdleDecompose == [stage |-> "idle"]

\* one invocation of the pipeline
Init ==
    /\ dirs = {"s1"}
    /\ \E r \in Requests :
          /\ req = [p \in Procs |-> IF p = 1 THEN r ELSE NoReq]
          /\ fs \in StoragesFor(r)
    /\ fs0 = fs
    /\ pc = [p \in Procs |-> IF p = 1 THEN "validate_dir" ELSE "idle"]
    /\ loc = [p \in Procs |-> NoLoc]
    /\ result = [p \in Procs |-> Running]
    /\ log = [p \in Procs |-> <<>>]
    /\ resp = [p \in Procs |-> NoResponse]
    /\ nm = IdleNames
    /\ dc = IdleDecompose

Step(p) ==
    \/ ValidateStudyDir(p)
    \/ ExtractModality(p)
    \/ ValidateFiles(p)
    \/ LoadVolumes(p)
    \/ DecomposeAndSave(p)
    \/ ConversionLoad(p)
    \/ ConversionExport(p)
    \/ CleanupExists(p)
    \/ CleanupUnlink(p)
    \/ Respond(p)

Next == \E p \in Procs : Step(p)

Spec == Init /\ [][Next]_vars

(***************************************************************************)
(* Two invocations at once, as the service runs them for two requests on   *)
(* the same study.                                                         *)
(***************************************************************************)
ConcFilenames ==
    {BaseA \o ModalitySuffix(T1N), BaseA \o ModalitySuffix(T2W),
     BaseA \o ModalitySuffix(T1N) \o ModalitySuffix(T1N)}

ConcRequests ==
    [study_code : {"s1"}, filename : ConcFilenames, seg_filename : SegFilenames,
     config : {[isNone |-> TRUE, dict |-> <<>>]}]

\* a labelmap of shape (1, 1, 2) with the stored values a and b
Seg112(a, b) ==
    [shape |-> <<1, 1, 2>>,
     data |-> [i \in Idx(<<1, 1, 2>>) |-> IF i[3] = 0 THEN a ELSE b]]

\* every input of ConcRequests exists; the two labelmaps differ
ConcStorage ==
    [x \in {InDir("s1", f) : f \in ConcFilenames \cup SegFilenames} |->
        IF x[2] \in ConcFilenames THEN Seg112(3, 3)
        ELSE IF x[2] = BaseA \o SegSuffix THEN Seg112(2, 8)
        ELSE Seg112(8, 2)]

InitConc ==
    /\ dirs = {"s1"}
    /\ req \in [Procs -> ConcRequests]
    /\ fs = ConcStorage
    /\ fs0 = fs
    /\ pc = [p \in Procs |-> "validate_dir"]
    /\ loc = [p \in Procs |-> NoLoc]
    /\ result = [p \in Procs |-> Running]
    /\ log = [p \in Procs |-> <<>>]
    /\ resp = [p \in Procs |-> NoResponse]
    /\ nm = IdleNames
    /\ dc = IdleDecompose

SpecConc == InitConc /\ [][Next]_vars

(***************************************************************************)
(* The naming functions on their own: a file name built from a base and a  *)
(* modality, its modality extracted, the derived names computed.           *)
(***************************************************************************)
Pieces == {BaseA, ModalitySuffix(T1N), ModalitySuffix(T2W)}

RECURSIVE Concats(_)
Concats(n) ==
    IF n = 0 THEN {<<>>}
    ELSE Concats(n - 1) \cup {b \o x : b \in Concats(n - 1), x \in Pieces}

Bases == Concats(MaxPieces)

\* pieces of file names given as they come: upper case, a newline, another token
RawPieces ==
    {BaseA, ModalitySuffix(T1N), Dash \o <<"T", "1", "N">> \o NiiGz, <<NL>>,
     Dash \o <<"t", "3", "z">> \o NiiGz}

RECURSIVE RawConcats(_)
RawConcats(n) ==
    IF n = 0 THEN {<<>>}
    ELSE RawConcats(n - 1) \cup {b \o x : b \in RawConcats(n - 1), x \in RawPieces}

RawNames == RawConcats(MaxPieces)

pipelineVars == <<dirs, fs, fs0, pc, req, loc, result, log, resp>>

IdlePipeline ==
    /\ dirs = {}
    /\ fs = <<>>
    /\ fs0 = <<>>
    /\ pc = [p \in Procs |-> "idle"]
    /\ req = [p \in Procs |-> NoReq]
    /\ loc = [p \in Procs |-> NoLoc]
    /\ result = [p \in Procs |-> Running]
    /\ log = [p \in Procs |-> <<>>]
    /\ resp = [p \in Procs |-> NoResponse]

InitNames ==
    /\ IdlePipeline
    /\ dc = IdleDecompose
    /\ \/ \E b \in Bases, m \in Modalities :
             nm = [stage |-> "given", built |-> TRUE, b |-> b, m |-> m,
                   filename |-> b \o Dash \o m \o NiiGz]
       \/ \E f \in RawNames :
             nm = [stage |-> "given", built |-> FALSE, b |-> <<>>, m |-> <<>>,
                   filename |-> f]

\* extract_modality_from_filename(filename)
NamesExtract ==
    /\ nm.stage = "given"
    /\ LET r == extract_modality_from_filename(nm.filename)
       IN nm' = IF r.ok
                THEN [stage |-> "extracted", built |-> nm.built, b |-> nm.b, m |-> nm.m,
                      filename |-> nm.filename, modality |-> r.modality]
                ELSE [stage |-> "rejected", built |-> nm.built, b |-> nm.b, m |-> nm.m,
                      filename |-> nm.filename, error |-> r.error]
    /\ UNCHANGED <<pipelineVars, dc>>

\* lines 82-83 and 156-157, 171: the base and the derived names
NamesDerive ==
    /\ nm.stage = "extracted"
    /\ nm' = [stage |-> "derived", built |-> nm.built, b |-> nm.b, m |-> nm.m,
              filename |-> nm.filename, modality |-> nm.modality,
              base_name |-> BaseName(nm.filename, nm.modality),
              segmented_filename |-> SegmentedFilename(nm.filename, nm.modality),
              vrdf_filename |-> VrdfFilename(nm.filename, nm.modality),
              actual_vrdf_filename |-> ActualVrdfFilename(nm.filename, nm.modality)]
    /\ UNCHANGED <<pipelineVars, dc>>

NextNames == NamesExtract \/ NamesDerive

SpecNames == InitNames /\ [][NextNames]_vars

(***************************************************************************)
(* The decomposition on its own: a stored volume and a stored labelmap     *)
(* are loaded and decomposed.                                              *)
(***************************************************************************)
\* a value of 2^24 + 1, which float32 cannot hold
BigHalf == F32Exact + 2

\* stored intensities: 0.0, 1.5 and 2^24 + 1
VolVals == {0, 3, BigHalf}

\* stored labels: -0.5, 1.5 and 4.0 (cast to 0, 1 and 4)
SegVals == {-1, 3, 8}

InitDecompose ==
    /\ IdlePipeline
    /\ nm = IdleNames
    /\ \E v \in Arrays(VolVals), s \in Arrays(SegVals) :
          dc = [stage |-> "stored", volFile |-> v, segFile |-> s]

\* lines 62-67: load_3d of both files, the labelmap cast to int32
DecomposeLoad ==
    /\ dc.stage = "stored"
    /\ dc' = [stage |-> "loaded", volFile |-> dc.volFile, segFile |-> dc.segFile,
              vol |-> load_3d(dc.volFile), seg |-> CastLabelmap(load_3d(dc.segFile))]
    /\ UNCHANGED <<pipelineVars, nm>>

\* lines 69-79
DecomposeApply ==
    /\ dc.stage = "loaded"
    /\ dc' = [stage |-> "done", volFile |-> dc.volFile, segFile |-> dc.segFile,
              vol |-> dc.vol, seg |-> dc.seg, r |-> Decompose(dc.vol, dc.seg)]
    /\ UNCHANGED <<pipelineVars, nm>>

NextDecompose == DecomposeLoad \/ DecomposeApply

SpecDecompose == InitDecompose /\ [][NextDecompose]_vars

(***************************************************************************)
(* Properties.                                                             *)
(***************************************************************************)
Started(p) == pc[p] # "idle"

Finished(p) == pc[p] \in {"done", "failed"}

HasLogged(p, op) == \E k \in 1..Len(log[p]) : log[p][k].op = op

\* the intermediate path of an invocation whose modality has been extracted
IntermediatePath(p) ==
    InDir(req[p].study_code, SegmentedFilename(req[p].filename, loc[p].modality))

\* C1: when the intermediate file was written and perform_conversion then raised,
\* the invocation fails with that error (the encoder's), it has deleted nothing,
\* and the intermediate file is still in the study directory with what was written.
C1_IntermediateKeptOnEncoderFailure ==
    \A p \in Procs :
        (pc[p] = "failed" /\ HasLogged(p, "write") /\ ~HasLogged(p, "encode")) =>
            /\ result[p].status = "failed"
            /\ result[p].error = "EncoderFailure"
            /\ ~HasLogged(p, "delete")
            /\ Exists(IntermediatePath(p))
            /\ fs[IntermediatePath(p)] = loc[p].vol_full

C1_Witness ==
    \E p \in Procs :
        /\ pc[p] = "failed" /\ HasLogged(p, "write") /\ ~HasLogged(p, "encode")
        /\ result[p].error = "EncoderFailure"
        /\ Exists(IntermediatePath(p))

\* C2: when an invocation running alone reports success, its intermediate file
\* is absent from the study directory.
C2_IntermediateAbsentOnSuccess ==
    \A p \in Procs :
        result[p].status = "ok" => ~Exists(IntermediatePath(p))

C2_Witness ==
    \E p \in Procs :
        /\ result[p].status = "ok"
        /\ HasLogged(p, "write") /\ HasLogged(p, "delete")
        /\ ~Exists(IntermediatePath(p))

\* C3: a failure to delete the intermediate file after a successful encoder call
\* never makes the invocation fail.
C3_CleanupFailureNotFatal ==
    \A p \in Procs :
        (Finished(p) /\ HasLogged(p, "encode")) => result[p].status = "ok"

\* C4: while one invocation has written its intermediate file and has not yet
\* finished encoding from it, no other invocation on the same study and input
\* file name writes or deletes that intermediate file.
C4_NoIntermediateRace ==
    [][\A p, q \in Procs :
          (/\ p # q
           /\ req[p].study_code = req[q].study_code
           /\ req[p].filename = req[q].filename
           /\ pc[q] \in {"conv_load", "export"})
          => ~(\/ pc[p] = "save" /\ pc'[p] = "conv_load"
               \/ pc[p] = "unlink" /\ pc'[p] = "done")]_vars

\* C5: for a 3D volume and a labelmap of the same shape, channel s at voxel v is
\* the volume's value at v when the label at v is LABELS[s] and 0 otherwise, so
\* at most one channel is non-zero at a voxel.
C5_ChannelExclusivity ==
    (dc.stage = "done" /\ Len(dc.vol.shape) = 3 /\ dc.seg.shape = dc.vol.shape) =>
        /\ dc.r.ok
        /\ dc.r.out.shape = dc.vol.shape \o <<Len(LABELS)>>
        /\ \A v \in Idx(dc.vol.shape) :
              /\ \A s \in 1..Len(LABELS) :
                    dc.r.out.data[Append(v, s - 1)] =
                        IF dc.seg.data[v] = LABELS[s] THEN dc.vol.data[v] ELSE 0
              /\ Cardinality({s \in 1..Len(LABELS) :
                                 dc.r.out.data[Append(v, s - 1)] # 0}) <= 1

C5_Witness ==
    /\ dc.stage = "done" /\ Len(dc.vol.shape) = 3 /\ dc.seg.shape = dc.vol.shape
    /\ \E v, w \in Idx(dc.vol.shape) :
          /\ v # w
          /\ dc.seg.data[v] = LABELS[2] /\ dc.vol.data[v] # 0
          /\ dc.r.out.data[Append(v, 1)] = dc.vol.data[v]
          /\ \A s \in 1..Len(LABELS) : dc.seg.data[w] # LABELS[s]
          /\ dc.vol.data[w] # 0

\* C6: when the loaded volume and the loaded labelmap differ in shape, the
\* decomposition fails and the invocation writes no intermediate file.
C6_ShapeMismatchFails ==
    \A p \in Procs :
        (pc[p] \notin {"idle", "validate_dir", "extract", "validate_files", "load"}
         /\ loc[p].vol # NoArray
         /\ loc[p].vol.shape # loc[p].seg.shape) =>
            (pc[p] \in {"save", "failed"} /\ ~HasLogged(p, "write"))

\* C7: for a file name b + '-' + m + '.nii.gz' the extracted modality is m, the
\* derived base is b, the intermediate name is b + '-segmented-' + m + '.nii.gz'
\* and the requested final name is b + '-' + m + '.vrdf'.
C7_NamingRoundTrip ==
    (nm.stage # "idle" /\ nm.built) =>
    /\ nm.stage # "rejected"
    /\ nm.stage \in {"extracted", "derived"} => nm.modality = nm.m
    /\ nm.stage = "derived" =>
          /\ nm.base_name = nm.b
          /\ nm.segmented_filename = nm.b \o SegmentedInfix \o nm.m \o NiiGz
          /\ nm.vrdf_filename = nm.b \o Dash \o nm.m \o VrdfExt

\* C8: the final name a successful invocation returns is the name of the file
\* the encoder wrote, whatever suffix the encoder puts before the extension.
C8_ReportedNameIsWritten ==
    \A p \in Procs :
        result[p].status = "ok" =>
            \E k \in 1..Len(log[p]) :
                /\ log[p][k].op = "encode"
                /\ log[p][k].path = InDir(req[p].study_code, result[p].vrdf_file)

\* the file name ends with '-<modality>.nii.gz' for no modality
NoModalitySuffix(f) == \A m \in Modalities : ~EndsWith(f, Dash \o m \o NiiGz)

\* the file name ends with '-<modality>.nii.gz' for some modality, or with that
\* followed by one newline
AcceptedName(f) ==
    \E m \in Modalities :
        \/ EndsWith(f, Dash \o m \o NiiGz)
        \/ EndsWith(f, Dash \o m \o NiiGz \o <<NL>>)

SomethingMissing(p) ==
    \/ req[p].study_code \notin dirs
    \/ InDir(req[p].study_code, req[p].filename) \notin DOMAIN fs0
    \/ InDir(req[p].study_code, req[p].seg_filename) \notin DOMAIN fs0

BeyondSave(p) == pc[p] \in {"conv_load", "export", "cleanup", "unlink", "done"}

\* C10 as stated: a missing study directory, input file or segmentation file makes
\* the invocation fail with a FileNotFoundError whatever the file name is, and no
\* file is created, overwritten or deleted.
C10_MissingIsNotFound ==
    \A p \in Procs :
        (Started(p) /\ SomethingMissing(p)) =>
            /\ ~BeyondSave(p)
            /\ pc[p] = "failed" => result[p].error = "FileNotFoundError"
            /\ fs = fs0

\* C10 amended: a missing study directory makes the invocation fail with a
\* FileNotFoundError whatever the file name is; a missing input or segmentation
\* file does so when the study directory exists and the pattern accepts the file
\* name; in both cases no file is created, overwritten or deleted.
C10_MissingIsNotFoundForAcceptedNames ==
    \A p \in Procs :
        (/\ Started(p)
         /\ SomethingMissing(p)
         /\ req[p].study_code \in dirs => AcceptedName(req[p].filename)) =>
            /\ ~BeyondSave(p)
            /\ pc[p] = "failed" => result[p].error = "FileNotFoundError"
            /\ fs = fs0

C10_Witness ==
    \E p \in Procs :
        /\ req[p].study_code \in dirs
        /\ AcceptedName(req[p].filename)
        /\ Exists(InDir(req[p].study_code, req[p].filename))
        /\ ~Exists(InDir(req[p].study_code, req[p].seg_filename))
        /\ pc[p] = "failed" /\ result[p].error = "FileNotFoundError"

\* C11: a failed /convert request is answered 404 only for a missing study
\* directory, input file or segmentation file, 400 only for a file name without a
\* modality suffix, and 500 for every other failure; 200 with the final name is
\* answered only when the pipeline returned.
C11_ErrorClassification ==
    \A p \in Procs :
        resp[p] # NoResponse =>
            /\ resp[p].status_code = 200 =>
                  (result[p].status = "ok" /\ resp[p].vrdf_file = result[p].vrdf_file)
            /\ resp[p].status_code # 200 => result[p].status = "failed"
            /\ resp[p].status_code = 404 => SomethingMissing(p)
            /\ resp[p].status_code = 400 => NoModalitySuffix(req[p].filename)
            /\ (/\ result[p].status = "failed"
                /\ ~SomethingMissing(p)
                /\ ~NoModalitySuffix(req[p].filename)) => resp[p].status_code = 500

\* C12: the modality m is extracted exactly from the file names that end with
\* '-' + m + '.nii.gz' (lower case, at the very end); every other file name is
\* rejected with a ValueError.
C12_ExtractionGrammar ==
    /\ nm.stage \in {"extracted", "derived"} =>
          EndsWith(nm.filename, Dash \o nm.modality \o NiiGz)
    /\ nm.stage = "rejected" =>
          (NoModalitySuffix(nm.filename) /\ nm.error = "ValueError")

\* the label LABELS[s] is carried by no voxel of the loaded labelmap
LabelAbsent(s) == \A v \in Idx(dc.seg.shape) : dc.seg.data[v] # LABELS[s]

\* C13: for a 3D volume and a labelmap of its shape, the decomposition succeeds
\* whichever labels are absent, the output has the shape (H, W, Z, |LABELS|), and
\* the channel of every absent label is zero at every voxel; with no label of
\* LABELS in the labelmap the whole output is zero.
C13_LabelAbsenceTolerated ==
    (dc.stage = "done" /\ Len(dc.vol.shape) = 3 /\ dc.seg.shape = dc.vol.shape) =>
        /\ dc.r.ok
        /\ dc.r.out.shape = <<dc.vol.shape[1], dc.vol.shape[2], dc.vol.shape[3],
                              Len(LABELS)>>
        /\ DOMAIN dc.r.out.data = Idx(dc.r.out.shape)
        /\ \A s \in 1..Len(LABELS) :
              LabelAbsent(s) =>
                  \A v \in Idx(dc.vol.shape) : dc.r.out.data[Append(v, s - 1)] = 0
        /\ (\A s \in 1..Len(LABELS) : LabelAbsent(s)) =>
              \A j \in DOMAIN dc.r.out.data : dc.r.out.data[j] = 0

C13_Witness ==
    /\ dc.stage = "done" /\ Len(dc.vol.shape) = 3 /\ dc.seg.shape = dc.vol.shape
    /\ \A s \in 1..Len(LABELS) : LabelAbsent(s)
    /\ \A v \in Idx(dc.vol.shape) : dc.vol.data[v] # 0
    /\ Prod(dc.vol.shape) > 1
    /\ dc.r.ok
    /\ \A j \in DOMAIN dc.r.out.data : dc.r.out.data[j] = 0

\* the operations an invocation has logged, in order
Ops(p) == [k \in 1..Len(log[p]) |-> log[p][k].op]

StageOrder == <<"write", "encode", "delete", "report">>

\* C14: in a run of one invocation the intermediate file is written, then the
\* encoder is called, then the intermediate file is deleted, then the final name
\* is reported, each only after the one before has finished without error: the
\* encoder starts with the intermediate file in place, the cleanup starts after
\* the encoder has written, and success is reported after the deletion.
C14_StageOrdering ==
    \A p \in Procs :
        /\ Len(log[p]) <= Len(StageOrder)
        /\ Ops(p) = SubSeq(StageOrder, 1, Len(log[p]))
        /\ pc[p] \in {"idle", "validate_dir", "extract", "validate_files", "load",
                       "save"} => log[p] = <<>>
        /\ pc[p] \in {"conv_load", "export"} =>
              (Ops(p) = <<"write">> /\ Exists(log[p][1].path))
        /\ pc[p] \in {"cleanup", "unlink"} =>
              (Ops(p) = <<"write", "encode">> /\ Exists(log[p][2].path))
        /\ pc[p] = "done" <=> Ops(p) = StageOrder
        /\ pc[p] = "done" <=> result[p].status = "ok"
        /\ pc[p] = "failed" => (Len(log[p]) <= 2 /\ result[p].status = "failed")

C14_Witness ==
    \E p \in Procs :
        /\ pc[p] = "done"
        /\ Ops(p) = StageOrder
        /\ log[p][1].path = log[p][3].path
        /\ Exists(log[p][2].path)

\* how often an invocation has logged an operation
Count(p, op) == Cardinality({k \in 1..Len(log[p]) : log[p][k].op = op})

\* C15: once an invocation has failed it stays failed, and no later step writes or
\* deletes a file, calls the encoder or reports a final name; an invocation
\* writes its intermediate file at most once and calls the encoder at most once.
C15_FailureIsTerminal ==
    /\ [][\A p \in Procs :
             pc[p] = "failed" =>
                 /\ pc'[p] = "failed"
                 /\ result'[p] = result[p]
                 /\ log'[p] = log[p]
                 /\ fs' = fs]_vars
    /\ [](\A p \in Procs :
             /\ Count(p, "write") <= 1
             /\ Count(p, "encode") <= 1
             /\ pc[p] = "failed" =>
                   (/\ ~HasLogged(p, "report")
                    /\ result[p].vrdf_file = <<>>
                    /\ resp[p].vrdf_file = <<>>))

C15_Witness ==
    \E p \in Procs :
        /\ pc[p] = "failed"
        /\ Count(p, "write") = 1
        /\ Count(p, "encode") = 1
        /\ resp[p] # NoResponse

\* the first 3D slab of a field: every trailing axis beyond the third at index 0
FirstSlab(a) ==
    [shape |-> SubSeq(a.shape, 1, 3),
     data |-> [i \in Idx(SubSeq(a.shape, 1, 3)) |->
                  AsFloat32(a.data[i \o [k \in 1..(Len(a.shape) - 3) |-> 0]])]]

\* C16: load_3d of a stored field of more than 3 dimensions is the first 3D slab
\* of the field, load_3d of a 3D field keeps its shape, and in both cases the
\* volume handed to the decomposition unpacks as (H, W, Z).
C16_LoaderDimensionality ==
    dc.stage \in {"loaded", "done"} =>
        /\ Len(dc.volFile.shape) > 3 =>
              (Len(dc.vol.shape) = 3 /\ dc.vol = FirstSlab(dc.volFile))
        /\ Len(dc.volFile.shape) = 3 => dc.vol.shape = dc.volFile.shape
        /\ (dc.stage = "done" /\ Len(dc.volFile.shape) >= 3) =>
              (dc.r.ok \/ dc.r.error # "ValueError")

\* C17: the encoder is called with no transfer function when the configuration is
\* None or has no transfer_function field, and with exactly the field's value
\* otherwise; no configuration makes the conversion fail before the encoder call.
C17_TransferFunctionPassThrough ==
    \A p \in Procs :
        LET cfg == req[p].config
            absent == cfg.isNone \/ "transfer_function" \notin DOMAIN cfg.dict
        IN /\ pc[p] \in {"export", "cleanup", "unlink", "done"} =>
                 /\ absent => loc[p].user_tf = "None"
                 /\ ~absent => loc[p].user_tf = cfg.dict.transfer_function
           /\ \A k \in 1..Len(log[p]) :
                 (log[p][k].op = "encode" /\ Exists(log[p][k].path)) =>
                     /\ absent => fs[log[p][k].path].tf = "None"
                     /\ ~absent => fs[log[p][k].path].tf = cfg.dict.transfer_function
           /\ (pc[p] = "failed" /\ Count(p, "write") = 1 /\ Count(p, "encode") = 0) =>
                 result[p].error = "EncoderFailure"

C17_Witness ==
    \E p \in Procs :
        /\ pc[p] = "done"
        /\ req[p].config.isNone
        /\ \E k \in 1..Len(log[p]) :
              /\ log[p][k].op = "encode"
              /\ fs[log[p][k].path].tf = "None"

\* the two files a request names
InputPaths(p) ==
    {InDir(req[p].study_code, req[p].filename),
     InDir(req[p].study_code, req[p].seg_filename)}

\* C18: whatever the outcome, the input volume file and the segmentation file that
\* existed before the invocation still exist with the same content, and no write
\* or delete of the invocation is aimed at one of them.
C18_InputsNeverClobbered ==
    \A p \in Procs :
        Started(p) =>
            /\ \A path \in InputPaths(p) :
                  path \in DOMAIN fs0 => (Exists(path) /\ fs[path] = fs0[path])
            /\ \A k \in 1..Len(log[p]) :
                  log[p][k].op \in {"write", "delete"} => log[p][k].path \notin InputPaths(p)

\* the paths an invocation has written, encoded or deleted
Touched(p) ==
    {log[p][k].path : k \in {j \in 1..Len(log[p]) : log[p][j].op # "report"}}

\* C19: two invocations of one study on different input filenames derive different
\* intermediate paths and different final output names, and never touch the
\* same intermediate or final file.
C19_DerivedPathsInjective ==
    \A p, q \in Procs :
        (/\ p # q
         /\ req[p].study_code = req[q].study_code
         /\ req[p].filename # req[q].filename)
        => /\ (loc[p].segmented_file # <<>> /\ loc[q].segmented_file # <<>>) =>
                 loc[p].segmented_file # loc[q].segmented_file
           /\ (loc[p].vrdf_file # <<>> /\ loc[q].vrdf_file # <<>>) =>
                 loc[p].vrdf_file # loc[q].vrdf_file
           /\ Touched(p) \cap Touched(q) = {}

====
